---- MODULE Spec2Model ----
(***************************************************************************)
(* Monitoring and retraining-decision code of the repository:              *)
(*   ModelMonitor        projects/ml_engineer_project/src/monitoring/      *)
(*                       metrics.py                                        *)
(*   ProductionForecaster projects/commodity_forecasting/src/              *)
(*                       production_pipeline.py                            *)
(* Dates are day numbers, datetime.now() is the integer clock `now`, and a *)
(* Python None is the empty tuple (an optional value x is <<x>>).          *)
(***************************************************************************)
EXTENDS Integers, Sequences, FiniteSets, TLC

VARIABLES
    now,                \* the wall clock read by datetime.now()
    reference_data,     \* ModelMonitor.reference_data
    performance_log,    \* ModelMonitor.performance_log
    drift_log,          \* ModelMonitor.drift_log
    ks_empty_raises,    \* whether the installed scipy's ks_2samp raises on an empty sample
    last_retrain_date,  \* ProductionForecaster.last_retrain_date
    models,             \* ProductionForecaster.models
    model_dir,          \* the version directories under ProductionForecaster.model_dir
    cleaning_report,    \* DataCleaner.cleaning_report
    balance,            \* BankAccount.balance of every account, by the account's name
    incoming,           \* the input delivered for the call under study (a batch, metrics, a forecast)
    ret,                \* what the latest call returned (or raised) to its caller
    prev                \* what the call before it returned

vars == <<now, reference_data, performance_log, drift_log, ks_empty_raises,
          last_retrain_date, models, model_dir, cleaning_report, balance,
          incoming, ret, prev>>

monitorVars == <<reference_data, performance_log, drift_log, ks_empty_raises, incoming>>
forecasterVars == <<last_retrain_date, models, model_dir>>
cleanerVars == <<cleaning_report>>
accountVars == <<balance>>

----------------------------------------------------------------------------
\* Bounds of the model

\* the clock runs from 0 to MaxClock
MaxClock == 2
\* days_since_training is drawn from 0 and from DefaultMaxDays -/+ DaysWindow
DaysWindow == 1
\* an explicitly passed max_days
ExplicitMaxDays == 7
\* current_date is a day number in 0 .. MaxDate
MaxDate == 8
\* training series are numbered 1 .. MaxSeries
MaxSeries == 2
\* a data frame has 0 .. MaxRows rows
MaxRows == 2
\* the drift log is followed up to MaxLog entries
MaxLog == 1

----------------------------------------------------------------------------
\* Python values

None == << >>
Some(x) == <<x>>
IsNone(x) == x = None
Val(x) == x[1]

NoCall == [op |-> "none", ok |-> TRUE]

\* a call that returned `value`
Returned(op, args, value) ==
    [op |-> op, args |-> args, ok |-> TRUE, value |-> value]

\* a call that raised `error`
Raised(op, args, error) ==
    [op |-> op, args |-> args, ok |-> FALSE, error |-> error]

\* the caller receives r; the result before it is kept for comparison
Deliver(r) ==
    /\ ret' = r
    /\ prev' = ret

----------------------------------------------------------------------------
\* ModelMonitor.should_retrain

\* max_days: int = 30
DefaultMaxDays == 30

DriftReason == "Data drift detected"
PerformanceReason == "Performance degradation detected"
TimeReason(max_days) == "Scheduled retraining (>" \o ToString(max_days) \o " days)"

\* should_retrain = False; reasons = []
NoTrigger == [should_retrain |-> FALSE, reasons |-> << >>]

\* if drift_detected: ...
DriftStep(s, drift_detected) ==
    IF drift_detected
    THEN [should_retrain |-> TRUE, reasons |-> Append(s.reasons, DriftReason)]
    ELSE s

PerformanceStep_Prepend(s, performance_degraded) ==
    IF performance_degraded
    THEN [should_retrain |-> TRUE, reasons |-> <<PerformanceReason>> \o s.reasons]
    ELSE s

\* if performance_degraded: ...
PerformanceStep(s, performance_degraded) ==
    IF performance_degraded
    THEN [should_retrain |-> TRUE, reasons |-> Append(s.reasons, PerformanceReason)]
    ELSE s

TimeStep_NoFlag(s, days_since_training, max_days) ==
    IF days_since_training >= max_days
    THEN [should_retrain |-> s.should_retrain,
          reasons |-> Append(s.reasons, TimeReason(max_days))]
    ELSE s

TimeStep_Strict(s, days_since_training, max_days) ==
    IF days_since_training > max_days
    THEN [should_retrain |-> TRUE, reasons |-> Append(s.reasons, TimeReason(max_days))]
    ELSE s

\* if days_since_training >= max_days: ...
TimeStep(s, days_since_training, max_days) ==
    IF days_since_training >= max_days
    THEN [should_retrain |-> TRUE, reasons |-> Append(s.reasons, TimeReason(max_days))]
    ELSE s

Priority_Any(drift_detected, performance_degraded) ==
    IF drift_detected \/ performance_degraded THEN "high" ELSE "medium"

\* 'priority': 'high' if performance_degraded else 'medium'
\* (drift_detected is in scope at that line and is not read)
Priority(drift_detected, performance_degraded) ==
    IF performance_degraded THEN "high" ELSE "medium"

Recommendation_StampedReasons(clock, s, priority) ==
    [timestamp |-> clock,
     should_retrain |-> s.should_retrain,
     reasons |-> [i \in 1 .. Len(s.reasons) |-> <<clock, s.reasons[i]>>],
     priority |-> priority]

\* recommendation = {'timestamp': ..., 'should_retrain': ..., 'reasons': ..., 'priority': ...}
\* the timestamp is datetime.now().isoformat(), one string per clock value
Recommendation(clock, s, priority) ==
    [timestamp |-> clock,
     should_retrain |-> s.should_retrain,
     reasons |-> s.reasons,
     priority |-> priority]

\* the body of should_retrain for an integer days_since_training
should_retrain(drift_detected, performance_degraded, days_since_training, max_days, clock) ==
    LET s == TimeStep(PerformanceStep(DriftStep(NoTrigger, drift_detected),
                                      performance_degraded),
                      days_since_training, max_days)
    IN Recommendation(clock, s, Priority(drift_detected, performance_degraded))

\* the max_days argument: omitted (None here) or given
MaxDaysArgs == {None, Some(ExplicitMaxDays)}
EffectiveMaxDays(arg) == IF IsNone(arg) THEN DefaultMaxDays ELSE Val(arg)

DaysArgs ==
    {None, Some(0)}
    \cup {Some(d) : d \in (DefaultMaxDays - DaysWindow) .. (DefaultMaxDays + DaysWindow)}

\* monitor.should_retrain(drift_detected, performance_degraded, days_since_training[, max_days])
\* None >= int raises TypeError at the comparison of line 249
MonitorShouldRetrain(drift_detected, performance_degraded, days_arg, max_days_arg) ==
    LET args == [drift_detected |-> drift_detected,
                 performance_degraded |-> performance_degraded,
                 days_since_training |-> days_arg,
                 max_days |-> max_days_arg]
        op == "ModelMonitor.should_retrain"
    IN /\ IF IsNone(days_arg)
          THEN Deliver(Raised(op, args, "TypeError"))
          ELSE Deliver(Returned(op, args,
                   should_retrain(drift_detected, performance_degraded, Val(days_arg),
                                  EffectiveMaxDays(max_days_arg), now)))
       /\ UNCHANGED <<now, monitorVars, cleanerVars, accountVars, forecasterVars>>

\* time passes
Tick ==
    /\ now < MaxClock
    /\ now' = now + 1
    /\ UNCHANGED <<monitorVars, forecasterVars, cleanerVars, accountVars, ret, prev>>

----------------------------------------------------------------------------
\* ProductionForecaster.should_retrain

\* self.retrain_frequency = 7  # Retrain weekly
retrain_frequency == 7

Forecaster_should_retrain_SkipFirst(last, current_date) ==
    IF IsNone(last)
    THEN FALSE
    ELSE current_date - Val(last) >= retrain_frequency

\* if self.last_retrain_date is None: return True  # First time, must train
Forecaster_should_retrain(last, current_date) ==
    IF IsNone(last)
    THEN TRUE
    ELSE LET days_since_retrain == current_date - Val(last)
         IN days_since_retrain >= retrain_frequency

LastRetrainDateAfter_Marked(last, current_date) ==
    IF Forecaster_should_retrain(last, current_date) THEN Some(current_date) ELSE last

\* should_retrain assigns nothing to self.last_retrain_date
LastRetrainDateAfter(last, current_date) == last

ForecasterShouldRetrain(current_date) ==
    /\ Deliver(Returned("ProductionForecaster.should_retrain",
                        [current_date |-> current_date,
                         last_retrain_date |-> last_retrain_date],
                        Forecaster_should_retrain(last_retrain_date, current_date)))
    /\ last_retrain_date' = LastRetrainDateAfter(last_retrain_date, current_date)
    /\ UNCHANGED <<now, monitorVars, cleanerVars, accountVars, models, model_dir>>

----------------------------------------------------------------------------
\* ProductionForecaster.train_arima_model, train_sarima_model

\* self.models[name] = fitted_model
Register(registry, name, fitted_model) ==
    [k \in DOMAIN registry \cup {name} |-> IF k = name THEN fitted_model ELSE registry[k]]

\* the fitted model statsmodels returns for a series
Fitted(name, series) == [model |-> name, series |-> series]

Train_RegistersFailure(name, series, fit_raises) ==
    /\ IF fit_raises
       THEN /\ Deliver(Returned("ProductionForecaster.train", [model |-> name, series |-> series], None))
            /\ models' = Register(models, name, None)
       ELSE /\ Deliver(Returned("ProductionForecaster.train", [model |-> name, series |-> series],
                                Some(Fitted(name, series))))
            /\ models' = Register(models, name, Fitted(name, series))
    /\ UNCHANGED <<now, monitorVars, cleanerVars, accountVars, last_retrain_date, model_dir>>

\* try: fit, register, return the fitted model; except Exception: return None.
\* Whether the fit raises is statsmodels' answer for the series: either outcome.
Train(name, series, fit_raises) ==
    /\ IF fit_raises
       THEN /\ Deliver(Returned("ProductionForecaster.train", [model |-> name, series |-> series], None))
            /\ UNCHANGED models
       ELSE /\ Deliver(Returned("ProductionForecaster.train", [model |-> name, series |-> series],
                                Some(Fitted(name, series))))
            /\ models' = Register(models, name, Fitted(name, series))
    /\ UNCHANGED <<now, monitorVars, cleanerVars, accountVars, last_retrain_date, model_dir>>

train_arima_model(series, fit_raises) ==
    /\ Train("ARIMA", series, fit_raises)

train_sarima_model(series, fit_raises) ==
    /\ Train("SARIMA", series, fit_raises)

----------------------------------------------------------------------------
\* The retraining policy: a ModelMonitor and a ProductionForecaster after construction

Init ==
    /\ now = 0
    /\ reference_data = None
    /\ performance_log = << >>
    /\ drift_log = << >>
    /\ ks_empty_raises = TRUE
    /\ last_retrain_date = None
    /\ models = << >>
    /\ model_dir = << >>
    /\ cleaning_report = << >>
    /\ balance = << >>
    /\ incoming = None
    /\ ret = NoCall
    /\ prev = NoCall

Next ==
    \/ \E c \in 0 .. MaxDate : ForecasterShouldRetrain(c)
    \/ \E d \in BOOLEAN, p \in BOOLEAN, days \in DaysArgs, m \in MaxDaysArgs :
          MonitorShouldRetrain(d, p, days, m)
    \/ Tick

Spec == Init /\ [][Next]_vars

\* The forecaster's retraining schedule and its trainings
NextForecaster ==
    \/ \E c \in 0 .. MaxDate : ForecasterShouldRetrain(c)
    \/ \E series \in 1 .. MaxSeries, fit_raises \in BOOLEAN : train_arima_model(series, fit_raises)
    \/ \E series \in 1 .. MaxSeries, fit_raises \in BOOLEAN : train_sarima_model(series, fit_raises)

SpecForecaster == Init /\ [][NextForecaster]_vars

----------------------------------------------------------------------------
\* Data frames: a frame maps each of its columns to the column's values, all
\* columns of one length. NaN marks a missing cell.

Features == {"tenure", "monthly_charges"}
Values == {1, 2}
NaN == -1
Cells == Values \cup {NaN}

\* Columns are enumerated in non-decreasing order: every computation below
\* counts values and is indifferent to the order of the rows.
ColumnsOfLength(n, cells) ==
    {c \in [1 .. n -> cells] : \A i \in 1 .. n - 1 : c[i] <= c[i + 1]}

Frame(data) == [data |-> data]
FramesOfLength(n, cells) ==
    {Frame(d) : d \in UNION {[S -> ColumnsOfLength(n, cells)] : S \in SUBSET Features \ {{}}}}
EmptyFrame == Frame(<< >>)

\* an observation batch: no columns, or some of the features with 0 .. MaxRows rows
Frames == {EmptyFrame} \cup UNION {FramesOfLength(n, Cells) : n \in 0 .. MaxRows}

\* the training data a monitor is built on: none, or a frame of complete rows,
\* none of them or MaxRows of them
ReferenceChoices ==
    {None} \cup {Some(df) : df \in {EmptyFrame} \cup FramesOfLength(0, Values)
                                      \cup FramesOfLength(MaxRows, Values)}

columns(df) == DOMAIN df.data
NumRows(df) == IF columns(df) = {} THEN 0 ELSE Len(df.data[CHOOSE f \in columns(df) : TRUE])

IsNaN(x) == x = NaN
dropna(column) == SelectSeq(column, LAMBDA x : ~IsNaN(x))

----------------------------------------------------------------------------
\* Drift scores are floats in the code; here a score is an exact fraction in
\* lowest terms, or nan.

Abs(x) == IF x < 0 THEN -x ELSE x
Max(S) == CHOOSE x \in S : \A y \in S : y <= x

RECURSIVE GCD(_, _)
GCD(a, b) == IF b = 0 THEN a ELSE GCD(b, a % b)

Fraction(n, d) ==
    LET g == GCD(n, d) IN [nan |-> FALSE, num |-> n \div g, den |-> d \div g]
Zero == Fraction(0, 1)
NaNScore == [nan |-> TRUE, num |-> 0, den |-> 1]

Computed(score) == [ok |-> TRUE, score |-> score]
Failed(error) == [ok |-> FALSE, error |-> error]

\* the number of observations <= v, the empirical CDF of the sample times its size
CountLE(sample, v) == Cardinality({i \in 1 .. Len(sample) : sample[i] <= v})

ks_statistic_OneSided(data1, data2) ==
    LET n1 == Len(data1)
        n2 == Len(data2)
        data_all == {data1[i] : i \in 1 .. n1} \cup {data2[i] : i \in 1 .. n2}
    IN Fraction(Max({CountLE(data1, v) * n2 - CountLE(data2, v) * n1 : v \in data_all}),
                n1 * n2)

\* scipy.stats.ks_2samp(data1, data2).statistic, two-sided: the largest gap
\* between the two empirical CDFs over all observations
ks_statistic(data1, data2) ==
    LET n1 == Len(data1)
        n2 == Len(data2)
        data_all == {data1[i] : i \in 1 .. n1} \cup {data2[i] : i \in 1 .. n2}
    IN Fraction(Max({Abs(CountLE(data1, v) * n2 - CountLE(data2, v) * n1) : v \in data_all}),
                n1 * n2)

\* For an empty sample ks_2samp raises ValueError in some scipy releases and
\* returns nan (with a warning) in others: empty_raises says which is installed.
ks_2samp(data1, data2, empty_raises) ==
    IF Len(data1) = 0 \/ Len(data2) = 0
    THEN IF empty_raises THEN Failed("ValueError") ELSE Computed(NaNScore)
    ELSE Computed(ks_statistic(data1, data2))

\* ModelMonitor.calculate_drift(current_data, feature, method='ks')
calculate_drift(reference, current_data, feature, empty_raises) ==
    IF IsNone(reference)
    THEN Computed(Zero)
    ELSE IF feature \notin columns(Val(reference)) \/ feature \notin columns(current_data)
    THEN Computed(Zero)
    ELSE LET reference_values == dropna(Val(reference).data[feature])
             current_values == dropna(current_data.data[feature])
         IN ks_2samp(reference_values, current_values, empty_raises)

----------------------------------------------------------------------------
\* ModelMonitor.check_all_features_drift

\* threshold: float = 0.3
DefaultThreshold == [num |-> 3, den |-> 10]
Thresholds == {DefaultThreshold, [num |-> 1, den |-> 2]}

\* all lists over the features, up to one entry per feature name
FeatureLists == UNION {[1 .. n -> Features] : n \in 0 .. Cardinality(Features)}

Exceeds_Inclusive(drift_score, threshold) ==
    /\ ~drift_score.nan
    /\ drift_score.num * threshold.den >= threshold.num * drift_score.den

\* drift_score > threshold (nan > threshold is False)
Exceeds(drift_score, threshold) ==
    /\ ~drift_score.nan
    /\ drift_score.num * threshold.den > threshold.num * drift_score.den

\* drift_results as created at the head of check_all_features_drift
NewDriftResults(clock) ==
    [timestamp |-> clock,
     features |-> << >>,
     drifted_features |-> << >>,
     drift_detected |-> FALSE]

\* drift_results['features'][feature] = drift_score
SetScore(scores, feature, drift_score) ==
    [f \in DOMAIN scores \cup {feature} |-> IF f = feature THEN drift_score ELSE scores[f]]

\* the for loop over numerical_features from position i on, `call` holding the
\* monitor's reference data and the arguments; an exception of calculate_drift
\* leaves the loop and the method
RECURSIVE DriftLoop(_, _, _)
DriftLoop(drift_results, i, call) ==
    IF i > Len(call.numerical_features)
    THEN [ok |-> TRUE, drift_results |-> drift_results]
    ELSE LET feature == call.numerical_features[i]
         IN IF feature \in columns(call.current_data)
            THEN LET r == calculate_drift(call.reference_data, call.current_data, feature,
                                          call.ks_empty_raises)
                 IN IF ~r.ok
                    THEN r
                    ELSE LET scored == [drift_results EXCEPT
                                 !.features = SetScore(@, feature, r.score)]
                             flagged ==
                                 IF Exceeds(r.score, call.threshold)
                                 THEN [scored EXCEPT
                                          !.drifted_features = Append(@, feature),
                                          !.drift_detected = TRUE]
                                 ELSE scored
                         IN DriftLoop(flagged, i + 1, call)
            ELSE DriftLoop(drift_results, i + 1, call)

check_all_features_drift(current_data, numerical_features, threshold) ==
    LET args == [current_data |-> current_data,
                 numerical_features |-> numerical_features,
                 threshold |-> threshold]
        op == "ModelMonitor.check_all_features_drift"
        r == DriftLoop(NewDriftResults(now), 1,
                       [reference_data |-> reference_data,
                        ks_empty_raises |-> ks_empty_raises,
                        current_data |-> current_data,
                        numerical_features |-> numerical_features,
                        threshold |-> threshold])
    IN /\ Len(drift_log) < MaxLog
       /\ IF r.ok
          THEN /\ drift_log' = Append(drift_log, r.drift_results)
               /\ Deliver(Returned(op, args, r.drift_results))
          ELSE /\ UNCHANGED drift_log
               /\ Deliver(Raised(op, args, r.error))
       /\ UNCHANGED <<now, reference_data, performance_log, ks_empty_raises, incoming,
                      cleanerVars, accountVars, forecasterVars>>

\* the drift check of the batch that was delivered
CheckIncoming ==
    /\ ~IsNone(incoming)
    /\ check_all_features_drift(Val(incoming).current_data,
                                Val(incoming).numerical_features,
                                Val(incoming).threshold)

\* ModelMonitor(reference_data=...) with the scipy that is installed, and the
\* batch, feature list and threshold it is asked to check
InitDrift ==
    /\ now = 0
    /\ reference_data \in ReferenceChoices
    /\ performance_log = << >>
    /\ drift_log = << >>
    /\ ks_empty_raises \in BOOLEAN
    /\ last_retrain_date = None
    /\ models = << >>
    /\ model_dir = << >>
    /\ cleaning_report = << >>
    /\ balance = << >>
    /\ incoming \in {Some([current_data |-> df, numerical_features |-> fs, threshold |-> t]) :
                         df \in Frames, fs \in FeatureLists, t \in Thresholds}
    /\ ret = NoCall
    /\ prev = NoCall

NextDrift == CheckIncoming

SpecDrift == InitDrift /\ [][NextDrift]_vars

----------------------------------------------------------------------------
\* ModelMonitor.check_performance_degradation
\* Metric values and thresholds are counted in hundredths: 0.90 is 90.

\* the metrics, in the order a metrics dict lists them
Metrics == <<"accuracy", "f1_score">>
MetricNames == {Metrics[i] : i \in DOMAIN Metrics}
MetricValues == {80, 85, 90}

\* threshold: float = 0.05
DefaultDegradationThreshold == 5
DegradationThresholds == {DefaultDegradationThreshold, 10}

\* a metrics dict holds some of the metrics
MetricDicts == UNION {[S -> MetricValues] : S \in SUBSET MetricNames}

NewDegradationReport(clock) ==
    [timestamp |-> clock, degraded |-> FALSE, degraded_metrics |-> << >>]

Degrades_Inclusive(baseline_value, current_value, threshold) ==
    baseline_value - current_value >= threshold

\* degradation = baseline_value - current_value; if degradation > threshold
Degrades(baseline_value, current_value, threshold) ==
    baseline_value - current_value > threshold

\* for metric, baseline_value in baseline_metrics.items(): the metrics from the
\* i-th on; call is [current_metrics, baseline_metrics, threshold]
RECURSIVE DegradationLoop(_, _, _)
DegradationLoop(degradation_report, i, call) ==
    IF i > Len(Metrics)
    THEN degradation_report
    ELSE LET metric == Metrics[i]
         IN IF /\ metric \in DOMAIN call.baseline_metrics
               /\ metric \in DOMAIN call.current_metrics
               /\ Degrades(call.baseline_metrics[metric], call.current_metrics[metric],
                           call.threshold)
            THEN DegradationLoop(
                     [degradation_report EXCEPT
                         !.degraded = TRUE,
                         !.degraded_metrics =
                             Append(@, [metric |-> metric,
                                        baseline |-> call.baseline_metrics[metric],
                                        current |-> call.current_metrics[metric],
                                        degradation |-> call.baseline_metrics[metric]
                                                        - call.current_metrics[metric]])],
                     i + 1, call)
            ELSE DegradationLoop(degradation_report, i + 1, call)

check_performance_degradation(current_metrics, baseline_metrics, threshold) ==
    /\ LET call == [current_metrics |-> current_metrics,
                    baseline_metrics |-> baseline_metrics,
                    threshold |-> threshold]
       IN Deliver(Returned("ModelMonitor.check_performance_degradation", call,
                           DegradationLoop(NewDegradationReport(now), 1, call)))
    /\ UNCHANGED <<now, monitorVars, cleanerVars, accountVars, forecasterVars>>

\* the degradation check of the metrics that were delivered
CheckDegradation ==
    /\ ~IsNone(incoming)
    /\ check_performance_degradation(Val(incoming).current_metrics,
                                     Val(incoming).baseline_metrics,
                                     Val(incoming).threshold)

\* a ModelMonitor after construction, at some time of day, and the current
\* metrics, baseline metrics and threshold it is asked to compare
InitDegradation ==
    /\ now \in 0 .. MaxClock
    /\ reference_data = None
    /\ performance_log = << >>
    /\ drift_log = << >>
    /\ ks_empty_raises = TRUE
    /\ last_retrain_date = None
    /\ models = << >>
    /\ model_dir = << >>
    /\ cleaning_report = << >>
    /\ balance = << >>
    /\ incoming \in {Some([current_metrics |-> c, baseline_metrics |-> b, threshold |-> t]) :
                         c \in MetricDicts, b \in MetricDicts, t \in DegradationThresholds}
    /\ ret = NoCall
    /\ prev = NoCall

NextDegradation == CheckDegradation

SpecDegradation == InitDegradation /\ [][NextDegradation]_vars


----------------------------------------------------------------------------
\* Floats: a float is nan, or the fraction num/den in lowest terms with den >= 0,
\* where 1/0 is inf and -1/0 is -inf (numpy division does not raise)

Sign(x) == IF x > 0 THEN 1 ELSE IF x < 0 THEN -1 ELSE 0

\* n / d
Quotient(n, d) ==
    IF d = 0
    THEN IF n = 0 THEN NaNScore ELSE [nan |-> FALSE, num |-> Sign(n), den |-> 0]
    ELSE IF d < 0 THEN Fraction(-n, -d) ELSE Fraction(n, d)

FloatOf(i) == Fraction(i, 1)

\* x - p, x / p and x * p for a float x that is not infinite and an integer p
Minus(x, p) == IF x.nan THEN x ELSE Fraction(x.num - p * x.den, x.den)
DividedBy(x, p) == IF x.nan THEN x ELSE Quotient(x.num, x.den * p)
Negated(x) == IF x.nan THEN x ELSE [x EXCEPT !.num = -x.num]

\* x * k for a float x and an integer k
Times(x, k) ==
    IF x.nan THEN x
    ELSE IF x.den = 0 THEN Quotient(x.num * k, 0)
    ELSE Fraction(x.num * k, x.den)

AbsFloat(x) == IF x.nan THEN x ELSE [x EXCEPT !.num = Abs(x.num)]

\* x > k and x < k: both false of nan
GreaterThan(x, k) == ~x.nan /\ x.num > k * x.den
LessThan(x, k) == ~x.nan /\ x.num < k * x.den

----------------------------------------------------------------------------
\* ProductionForecaster.t_policy_recommendation

\* forecast_df.iloc[:30], .iloc[30:60], .iloc[60:90]
Day30 == 30
Day60 == 60
Day90 == 90
\* if trend > 2 ... elif trend < -2
TrendThreshold == 2
\* "Assume 1M bushels"
AssumedVolume == 1000000

\* the labels (the code puts a coloured dot before each)
LOCK == "LOCK NOW"
WAIT == "WAIT"
MONITOR == "MONITOR"

\* forecasts have 0 .. MaxShortHorizon steps, or about Day60 and Day90 steps
MaxShortHorizon == 3
\* a long forecast has Day90 + ExtraSteps steps
ExtraSteps == 10

Horizons == (0 .. MaxShortHorizon) \cup {Day60, Day60 + 1, Day90, Day90 + ExtraSteps}
\* predicted prices start at a level and rise by a slope a step
Levels == {-103, 97, 98, 100, 102, 103}
Slopes == {0, 1}
SpotPrices == {-100, 0, 100}
\* the volume the caller has to hedge
CallerVolumes == {AssumedVolume, 500000}

ForecastFrame(n, level, slope) ==
    [predicted_price |-> [i \in 1 .. n |-> level + slope * (i - 1)]]
ForecastFrames ==
    {ForecastFrame(n, level, slope) : n \in Horizons, level \in Levels, slope \in Slopes}

Min(a, b) == IF a < b THEN a ELSE b

\* column.iloc[start:stop]: rows start .. stop-1 counted from 0, as far as they exist
iloc(column, start, stop) ==
    SubSeq(column, Min(start, Len(column)) + 1, Min(stop, Len(column)))

RECURSIVE SumSeq(_)
SumSeq(column) == IF column = << >> THEN 0 ELSE Head(column) + SumSeq(Tail(column))

\* Series.mean(): nan of no rows
mean(column) == IF column = << >> THEN NaNScore ELSE Fraction(SumSeq(column), Len(column))

forecast_30d(forecast_df) == mean(iloc(forecast_df.predicted_price, 0, Day30))
forecast_60d(forecast_df) == mean(iloc(forecast_df.predicted_price, Day30, Day60))
forecast_90d(forecast_df) == mean(iloc(forecast_df.predicted_price, Day60, Day90))

\* trend = (forecast_90d - current_spot_price) / current_spot_price * 100
trend_pct(long, current_spot_price) ==
    Times(DividedBy(Minus(long, current_spot_price), current_spot_price), 100)

Decision_Inclusive(trend) ==
    IF GreaterThan(trend, TrendThreshold) \/ trend = FloatOf(TrendThreshold) THEN LOCK
    ELSE IF LessThan(trend, -TrendThreshold) \/ trend = FloatOf(-TrendThreshold) THEN WAIT
    ELSE MONITOR

\* if trend > 2 ... elif trend < -2 ... else
Decision(trend) ==
    IF GreaterThan(trend, TrendThreshold) THEN LOCK
    ELSE IF LessThan(trend, -TrendThreshold) THEN WAIT
    ELSE MONITOR

Savings_PerUnit(recommendation, long, current_spot_price) ==
    IF recommendation = LOCK THEN Minus(long, current_spot_price)
    ELSE IF recommendation = WAIT THEN AbsFloat(Negated(Minus(long, current_spot_price)))
    ELSE FloatOf(0)

\* savings of each branch
Savings(recommendation, long, current_spot_price) ==
    IF recommendation = LOCK
    THEN Times(Minus(long, current_spot_price), AssumedVolume)
    ELSE IF recommendation = WAIT
    THEN AbsFloat(Times(Negated(Minus(long, current_spot_price)), AssumedVolume))
    ELSE FloatOf(0)

\* reasoning: the sentence of the branch and the percentage it quotes
Reasoning(recommendation, trend) ==
    IF recommendation = LOCK THEN <<"Prices forecasted to rise", trend>>
    ELSE IF recommendation = WAIT THEN <<"Prices forecasted to fall", AbsFloat(trend)>>
    ELSE <<"Prices relatively stable, flexible timing">>

t_policy_recommendation(forecast_df, current_spot_price) ==
    /\ LET long == forecast_90d(forecast_df)
           trend == trend_pct(long, current_spot_price)
           recommendation == Decision(trend)
       IN Deliver(Returned("ProductionForecaster.t_policy_recommendation",
                           [forecast_df |-> forecast_df,
                            current_spot_price |-> current_spot_price],
                           [recommendation |-> recommendation,
                            reasoning |-> Reasoning(recommendation, trend),
                            trend_pct |-> trend,
                            expected_savings |-> Savings(recommendation, long, current_spot_price),
                            current_price |-> current_spot_price,
                            forecast_90d |-> long]))
    /\ UNCHANGED <<now, monitorVars, cleanerVars, accountVars, forecasterVars>>

\* the recommendation for the forecast and spot price that were delivered
Recommend ==
    /\ ~IsNone(incoming)
    /\ t_policy_recommendation(Val(incoming).forecast_df, Val(incoming).current_spot_price)

\* a ProductionForecaster after construction, and the forecast and current spot
\* price a caller with some volume to hedge asks a recommendation for
InitRecommend ==
    /\ now = 0
    /\ reference_data = None
    /\ performance_log = << >>
    /\ drift_log = << >>
    /\ ks_empty_raises = TRUE
    /\ last_retrain_date = None
    /\ models = << >>
    /\ model_dir = << >>
    /\ cleaning_report = << >>
    /\ balance = << >>
    /\ incoming \in {Some([forecast_df |-> f, current_spot_price |-> p, volume |-> v]) :
                         f \in ForecastFrames, p \in SpotPrices, v \in CallerVolumes}
    /\ ret = NoCall
    /\ prev = NoCall

NextRecommend == Recommend

SpecRecommend == InitRecommend /\ [][NextRecommend]_vars


----------------------------------------------------------------------------
\* ProductionForecaster.generate_forecast

\* the longest forecast asked for has MaxSteps steps
MaxSteps == 3
\* steps: a negative one, none, one, and MaxSteps
HorizonArgs == {-1, 0, 1, MaxSteps}

\* 'Prophet' stands for a model_name the method has no branch for
ModelNames == {"ARIMA", "SARIMA", "XGBoost", "Prophet"}

\* the price history: its dates (in row order or not) and spot prices
TrainingFrames ==
    {[date |-> dates, spot_price |-> <<100, 101>>] :
         dates \in {<<MaxDate - 1, MaxDate>>, <<MaxDate, MaxDate - 1>>}}

\* which library call, if any, rejects its arguments: pandas' date_range may
\* refuse a negative number of periods or give no dates, statsmodels' forecast
\* may raise for any request
LibraryOutcomes == {"none", "date_range", "forecast"}

ForecastStart_LastDay(data) == Max({data.date[i] : i \in DOMAIN data.date})

\* start = data['date'].max() + timedelta(days=1)
ForecastStart(data) == Max({data.date[i] : i \in DOMAIN data.date}) + 1

\* pd.date_range(start, periods, freq='D'): no dates for periods <= 0
date_range(start, periods) == [i \in 1 .. periods |-> start + (i - 1)]

\* what the fitted model predicts for a step: a value fixed by the model and the step
Predicted(fitted_model, i) == 100 * fitted_model.series + i

\* model.forecast(steps=steps)
forecast(fitted_model, steps) == [i \in 1 .. steps |-> Predicted(fitted_model, i)]

\* [data['spot_price'].iloc[-1]] * steps
Placeholder(data, steps) == [i \in 1 .. steps |-> data.spot_price[Len(data.spot_price)]]

\* pd.DataFrame({'date': ..., 'predicted_price': ..., 'model': model_name})
Predictions(forecast_dates, predicted_price, model_name) ==
    [date |-> forecast_dates,
     predicted_price |-> predicted_price,
     model |-> [i \in DOMAIN forecast_dates |-> model_name]]

HasEndpoints_Always(forecast_dates) == TRUE

\* forecast_dates[0] and forecast_dates[-1] exist
HasEndpoints(forecast_dates) == forecast_dates # << >>

\* the outcome of generate_forecast with the registry as it is;
\* call is [model_name, data, steps]
generate_forecast_outcome(registry, call, library) ==
    LET op == "ProductionForecaster.generate_forecast"
        forecast_dates == date_range(ForecastStart(call.data), call.steps)
        statistical == call.model_name \in {"ARIMA", "SARIMA"}
    IN IF call.steps < 0 /\ library = "date_range"
       THEN Raised(op, call, "ValueError")
       ELSE IF statistical /\ call.model_name \notin DOMAIN registry
       THEN Raised(op, call, "KeyError")
       ELSE IF statistical /\ library = "forecast"
       THEN Raised(op, call, "Exception")
       ELSE IF ~HasEndpoints(forecast_dates)
       THEN Raised(op, call, "IndexError")
       ELSE IF statistical
       THEN Returned(op, call,
                     Predictions(forecast_dates,
                                 forecast(registry[call.model_name], call.steps),
                                 call.model_name))
       ELSE IF call.model_name = "XGBoost"
       THEN Returned(op, call,
                     Predictions(forecast_dates, Placeholder(call.data, call.steps),
                                 call.model_name))
       ELSE Raised(op, call, "UnboundLocalError")

generate_forecast(model_name, data, steps, library) ==
    /\ Deliver(generate_forecast_outcome(models,
                                         [model_name |-> model_name, data |-> data,
                                          steps |-> steps],
                                         library))
    /\ UNCHANGED <<now, monitorVars, cleanerVars, accountVars, forecasterVars>>

\* Trainings and forecasts of a ProductionForecaster
NextForecast ==
    \/ \E series \in 1 .. MaxSeries, fit_raises \in BOOLEAN : train_arima_model(series, fit_raises)
    \/ \E series \in 1 .. MaxSeries, fit_raises \in BOOLEAN : train_sarima_model(series, fit_raises)
    \/ \E model_name \in ModelNames, data \in TrainingFrames, steps \in HorizonArgs,
          library \in LibraryOutcomes :
          generate_forecast(model_name, data, steps, library)

SpecForecast == Init /\ [][NextForecast]_vars


----------------------------------------------------------------------------
\* ProductionForecaster.train_xgboost_model, and the forecasts of the XGBoost branch

\* how a training ends: xgboost is not installed, XGBRegressor.fit raises, or it fits
XGBoostOutcomes == {"ImportError", "fit_raises", "fitted"}

\* self.models['XGBoost'] = {'model': model, 'features': ..., 'importance': ...}
XGBoostEntry(model) ==
    [model |-> model, features |-> "feature_cols", importance |-> "importance"]

\* except ImportError: return None; a raising fit is not caught; else register
\* the entry and return the model
train_xgboost_model(series, outcome) ==
    /\ LET args == [model |-> "XGBoost", series |-> series]
           model == Fitted("XGBoost", series)
       IN IF outcome = "ImportError"
          THEN /\ Deliver(Returned("ProductionForecaster.train", args, None))
               /\ UNCHANGED models
          ELSE IF outcome = "fit_raises"
          THEN /\ Deliver(Raised("ProductionForecaster.train", args, "Exception"))
               /\ UNCHANGED models
          ELSE /\ Deliver(Returned("ProductionForecaster.train", args, Some(model)))
               /\ models' = Register(models, "XGBoost", XGBoostEntry(model))
    /\ UNCHANGED <<now, monitorVars, cleanerVars, accountVars, last_retrain_date, model_dir>>

\* generate_forecast('XGBoost', ...)
generate_xgboost_forecast(data, steps, library) ==
    /\ generate_forecast("XGBoost", data, steps, library)

\* Trainings of the tree model and forecasts asked of it
NextTreeForecast ==
    \/ \E series \in 1 .. MaxSeries, outcome \in XGBoostOutcomes :
          train_xgboost_model(series, outcome)
    \/ \E data \in TrainingFrames, steps \in HorizonArgs, library \in LibraryOutcomes :
          generate_xgboost_forecast(data, steps, library)

SpecTreeForecast == Init /\ [][NextTreeForecast]_vars


----------------------------------------------------------------------------
\* ModelMonitor.calculate_psi
\* Breakpoints are kept multiplied by the number of bins, which makes the linearly
\* interpolated percentiles of integer samples integers. The PSI itself is a sum
\* of logarithms: it is kept as the list of the bins' terms that are summed.

\* bins: int = 10
DefaultBins == 10

\* the values of a sample; a sample is kept in ascending order
SampleValues == 1 .. 4
SamplesOfLength(n) == ColumnsOfLength(n, SampleValues)

\* np.percentile(expected, 100 * k / bins), times bins: linear interpolation
\* between the two order statistics around position (n - 1) * k / bins
percentile(expected, k, bins) ==
    LET position == (Len(expected) - 1) * k
        below == position \div bins + 1
        fraction == position % bins
    IN IF fraction = 0
       THEN bins * expected[below]
       ELSE bins * expected[below] + fraction * (expected[below + 1] - expected[below])

\* np.unique(np.percentile(expected, np.linspace(0, 100, bins + 1))): ascending, distinct
breakpoints(expected, bins) ==
    LET points == {percentile(expected, k, bins) : k \in 0 .. bins}
    IN [i \in 1 .. Cardinality(points) |->
           CHOOSE x \in points : Cardinality({y \in points : y < x}) = i - 1]

\* pd.cut(..., bins=breaks, include_lowest=True) of one value: the interval
\* (breaks[i], breaks[i+1]] it lies in, the first one taking its left end too;
\* 0 for a value in no interval
interval_of(value, breaks, bins) ==
    LET scaled == bins * value
        last == Len(breaks)
    IN IF last < 2 \/ scaled < breaks[1] \/ scaled > breaks[last]
       THEN 0
       ELSE IF scaled = breaks[1]
       THEN 1
       ELSE CHOOSE i \in 1 .. last - 1 : breaks[i] < scaled /\ scaled <= breaks[i + 1]

\* pd.cut(sample, ...).value_counts(normalize=True).sort_index(): the share of
\* each interval among the values that lie in an interval (nan when none does)
percents(sample, breaks, bins) ==
    LET count(i) == Cardinality({j \in 1 .. Len(sample) : interval_of(sample[j], breaks, bins) = i})
        total == Cardinality({j \in 1 .. Len(sample) : interval_of(sample[j], breaks, bins) # 0})
    IN [i \in 1 .. Len(breaks) - 1 |-> Quotient(count(i), total)]

\* (actual - expected) * np.log(actual / expected) of one interval: the term is
\* nan when a share is nan or both are 0 and infinite when exactly one is 0
psi_term(actual_percent, expected_percent) ==
    [actual |-> actual_percent,
     expected |-> expected_percent,
     nan |-> \/ actual_percent.nan
             \/ expected_percent.nan
             \/ (actual_percent.num = 0 /\ expected_percent.num = 0)]

psi_sum_KeepNaN(psi_values) == psi_values

\* psi_values.sum(): a pandas sum leaves nan terms out
psi_sum(psi_values) == SelectSeq(psi_values, LAMBDA term : ~term.nan)

calculate_psi_value(expected, actual, bins) ==
    LET breaks == breakpoints(expected, bins)
        expected_percents == percents(expected, breaks, bins)
        actual_percents == percents(actual, breaks, bins)
        psi_values == [i \in 1 .. Len(breaks) - 1 |->
                          psi_term(actual_percents[i], expected_percents[i])]
    IN psi_sum(psi_values)

calculate_psi(expected, actual, bins) ==
    /\ Deliver(Returned("ModelMonitor.calculate_psi",
                        [expected |-> expected, actual |-> actual, bins |-> bins],
                        calculate_psi_value(expected, actual, bins)))
    /\ UNCHANGED <<now, monitorVars, cleanerVars, accountVars, forecasterVars>>

\* the PSI of the two samples that were delivered
ScoreIncoming ==
    /\ ~IsNone(incoming)
    /\ calculate_psi(Val(incoming).expected, Val(incoming).actual, DefaultBins)

\* a ModelMonitor after construction, and the reference sample (not empty) and
\* current sample whose PSI is asked for
InitPSI ==
    /\ now = 0
    /\ reference_data = None
    /\ performance_log = << >>
    /\ drift_log = << >>
    /\ ks_empty_raises = TRUE
    /\ last_retrain_date = None
    /\ models = << >>
    /\ model_dir = << >>
    /\ cleaning_report = << >>
    /\ balance = << >>
    /\ incoming \in {Some([expected |-> e, actual |-> a]) :
                         e \in UNION {SamplesOfLength(n) : n \in 1 .. MaxRows},
                         a \in UNION {SamplesOfLength(n) : n \in 0 .. MaxRows}}
    /\ ret = NoCall
    /\ prev = NoCall

NextPSI == ScoreIncoming

SpecPSI == InitPSI /\ [][NextPSI]_vars


----------------------------------------------------------------------------
\* ProductionForecaster.save_models
\* model_dir maps each version directory to its files, a file name to its content.

\* version='v1', and another label
Versions == {"v1", "v2"}

\* commodity_name='Corn_CBOT'
commodity_name == "Corn_CBOT"

\* f'{model_name}.joblib' for XGBoost, f'{model_name}.pkl' otherwise
ArtifactName(model_name) ==
    IF model_name = "XGBoost" THEN "XGBoost.joblib" ELSE model_name \o ".pkl"

\* the metadata dict; training_date is the time of the save
Metadata(version, clock, registry) ==
    [version |-> version,
     commodity |-> commodity_name,
     training_date |-> clock,
     models |-> DOMAIN registry]

\* os.makedirs(version_dir, exist_ok=True): an existing directory is kept as it is
makedirs(dirs, version) ==
    [v \in DOMAIN dirs \cup {version} |-> IF v \in DOMAIN dirs THEN dirs[v] ELSE << >>]

\* the files of the version directory after every model of the registry and the
\* metadata were written into it: a file of the same name is replaced, any other
\* file stays
FilesAfterSave(files, version, clock, registry) ==
    LET artifacts == {ArtifactName(m) : m \in DOMAIN registry}
    IN [f \in DOMAIN files \cup artifacts \cup {"metadata.json"} |->
           IF f = "metadata.json"
           THEN Metadata(version, clock, registry)
           ELSE IF f \in artifacts
           THEN registry[CHOOSE m \in DOMAIN registry : ArtifactName(m) = f]
           ELSE files[f]]

\* the directory is made, the models and the metadata are written, the directory
\* is returned; a write that raises (io_raises) ends the call after the makedirs
save_models(version, io_raises) ==
    /\ LET dirs == makedirs(model_dir, version)
           op == "ProductionForecaster.save_models"
           args == [version |-> version]
       IN IF io_raises
          THEN /\ model_dir' = dirs
               /\ Deliver(Raised(op, args, "OSError"))
          ELSE /\ model_dir' = [dirs EXCEPT
                                   ![version] = FilesAfterSave(@, version, now, models)]
               /\ Deliver(Returned(op, args, version))
    /\ UNCHANGED <<now, monitorVars, cleanerVars, accountVars, last_retrain_date, models>>

\* Trainings and saves of a ProductionForecaster, as time passes
NextSave ==
    \/ \E series \in 1 .. MaxSeries, fit_raises \in BOOLEAN : train_arima_model(series, fit_raises)
    \/ \E version \in Versions, io_raises \in BOOLEAN : save_models(version, io_raises)
    \/ Tick

SpecSave == Init /\ [][NextSave]_vars


----------------------------------------------------------------------------
\* DataCleaner.remove_duplicates
\* A data frame of records is the sequence of its rows, in index order.

\* a frame of records has 0 .. MaxRecords rows
MaxRecords == 3

\* the columns of the records, and the rows there are
RecordColumns == {"id", "value"}
RecordRows == [id : {1, 2}, value : {10, 20}]
RecordFrames == UNION {[1 .. n -> RecordRows] : n \in 0 .. MaxRecords}

\* subset: None, or the columns that identify a duplicate
Subsets == {None} \cup {Some(cols) : cols \in (SUBSET RecordColumns) \ {{}}}

\* what drop_duplicates compares of a row: all of it, or its subset columns
Compared(row, subset) ==
    IF IsNone(subset) THEN row ELSE [c \in Val(subset) |-> row[c]]

duplicated_KeepLast(df, subset, i) ==
    \E j \in i + 1 .. Len(df) : Compared(df[j], subset) = Compared(df[i], subset)

\* keep='first': a row is a duplicate when an earlier row compares equal
duplicated(df, subset, i) ==
    \E j \in 1 .. i - 1 : Compared(df[j], subset) = Compared(df[i], subset)

\* the first n rows of df without their duplicates, in the order of df
RECURSIVE drop_duplicates(_, _, _)
drop_duplicates(df, subset, n) ==
    IF n = 0
    THEN << >>
    ELSE LET before == drop_duplicates(df, subset, n - 1)
         IN IF duplicated(df, subset, n) THEN before ELSE Append(before, df[n])

\* the rows that are left are counted against the rows that came in, the count
\* is stored in the cleaning report, the rows are returned under a fresh index
remove_duplicates(df, subset) ==
    /\ LET initial_count == Len(df)
           df_clean == drop_duplicates(df, subset, Len(df))
           removed == initial_count - Len(df_clean)
       IN /\ cleaning_report' = Register(cleaning_report, "duplicates_removed", removed)
          /\ Deliver(Returned("DataCleaner.remove_duplicates",
                              [df |-> df, subset |-> subset], df_clean))
    /\ UNCHANGED <<now, monitorVars, forecasterVars, accountVars>>

\* the cleaning of the frame that was delivered
CleanIncoming ==
    /\ ~IsNone(incoming)
    /\ remove_duplicates(Val(incoming).df, Val(incoming).subset)

\* a DataCleaner after construction, and the frame it is asked to clean
InitCleaner ==
    /\ now = 0
    /\ reference_data = None
    /\ performance_log = << >>
    /\ drift_log = << >>
    /\ ks_empty_raises = TRUE
    /\ last_retrain_date = None
    /\ models = << >>
    /\ model_dir = << >>
    /\ cleaning_report = << >>
    /\ balance = << >>
    /\ incoming \in {Some([df |-> df, subset |-> s]) : df \in RecordFrames, s \in Subsets}
    /\ ret = NoCall
    /\ prev = NoCall

NextCleaner == CleanIncoming

SpecCleaner == InitCleaner /\ [][NextCleaner]_vars


----------------------------------------------------------------------------
\* BankAccount (Module_bank_accounts.py) and the accounts of the test script
\* balance maps the name of every account to its balance.

\* balances are followed within -MaxBalance .. MaxBalance
MaxBalance == 150

\* Dave = BankAccount(100, "Dave"); John = BankAccount(150, "John")
Opened == [Dave |-> 100, John |-> 150]
Holders == DOMAIN Opened

\* the amounts asked for: below zero, within a balance, above a balance
Amounts == {-50, 50, 100}

InRange(accounts) == \A name \in DOMAIN accounts : accounts[name] \in -MaxBalance .. MaxBalance

viableTransaction_Always(account_balance, amount) == TRUE

\* if self.balance >= amount: return; else: raise BalanceException
viableTransaction(account_balance, amount) == account_balance >= amount

\* self.balance = self.balance + amount
Deposited(accounts, name, amount) == [accounts EXCEPT ![name] = @ + amount]

\* withdraw: the amount leaves the balance unless the check raises, which ends
\* the try block before the assignment
Withdrawn(accounts, name, amount) ==
    IF viableTransaction(accounts[name], amount)
    THEN [accounts EXCEPT ![name] = @ - amount]
    ELSE accounts

\* transfer: self.balance -= amount, then account.deposit(amount), unless the
\* check raises
Transferred(accounts, name, amount, account) ==
    IF viableTransaction(accounts[name], amount)
    THEN Deposited([accounts EXCEPT ![name] = @ - amount], account, amount)
    ELSE accounts

\* what a call is recorded with: the account it is made on, the balance the
\* account has when it is made, and the arguments
AccountCall(name, amount, account) ==
    [self |-> name, balance |-> balance[name], amount |-> amount, account |-> account]

deposit(name, amount) ==
    /\ balance' = Deposited(balance, name, amount)
    /\ InRange(balance')
    /\ Deliver(Returned("BankAccount.deposit", AccountCall(name, amount, None), None))
    /\ UNCHANGED <<now, monitorVars, forecasterVars, cleanerVars>>

\* the BalanceException is caught inside withdraw: the call returns None either way
withdraw(name, amount) ==
    /\ balance' = Withdrawn(balance, name, amount)
    /\ InRange(balance')
    /\ Deliver(Returned("BankAccount.withdraw", AccountCall(name, amount, None), None))
    /\ UNCHANGED <<now, monitorVars, forecasterVars, cleanerVars>>

\* the BalanceException is caught inside transfer: the call returns None either way
transfer(name, amount, account) ==
    /\ balance' = Transferred(balance, name, amount, account)
    /\ InRange(balance')
    /\ Deliver(Returned("BankAccount.transfer", AccountCall(name, amount, Some(account)), None))
    /\ UNCHANGED <<now, monitorVars, forecasterVars, cleanerVars>>

\* the two accounts of the script after their construction
InitBank ==
    /\ now = 0
    /\ reference_data = None
    /\ performance_log = << >>
    /\ drift_log = << >>
    /\ ks_empty_raises = TRUE
    /\ last_retrain_date = None
    /\ models = << >>
    /\ model_dir = << >>
    /\ cleaning_report = << >>
    /\ balance = Opened
    /\ incoming = None
    /\ ret = NoCall
    /\ prev = NoCall

NextBank ==
    \/ \E name \in Holders, amount \in Amounts : deposit(name, amount)
    \/ \E name \in Holders, amount \in Amounts : withdraw(name, amount)
    \/ \E name \in Holders, amount \in Amounts, account \in Holders : transfer(name, amount, account)

SpecBank == InitBank /\ [][NextBank]_vars


----------------------------------------------------------------------------
\* Retraining decisions (ModelMonitor.should_retrain)

IsMonitorDecision(r) == r.op = "ModelMonitor.should_retrain" /\ r.ok

\* the max_days a call ran with: the one passed, or 30 when it was omitted
MaxDaysOf(r) ==
    IF IsNone(r.args.max_days) THEN 30 ELSE Val(r.args.max_days)

TimeFired(r) == Val(r.args.days_since_training) >= MaxDaysOf(r)

Count(seq, x) == Cardinality({i \in 1 .. Len(seq) : seq[i] = x})

HasReason(r, reason) == \E i \in 1 .. Len(r.value.reasons) : r.value.reasons[i] = reason

\* C1: should_retrain is true iff at least one of the three triggers fired, and
\* the reasons list is non-empty iff should_retrain is true.
C1_RetrainIffTriggered ==
    IsMonitorDecision(ret) =>
        /\ ret.value.should_retrain <=>
               (ret.args.drift_detected \/ ret.args.performance_degraded \/ TimeFired(ret))
        /\ (Len(ret.value.reasons) > 0) <=> ret.value.should_retrain

\* a decision taken on the time trigger alone, after one where nothing fired
C1_Witness ==
    /\ IsMonitorDecision(ret) /\ IsMonitorDecision(prev)
    /\ ~ret.args.drift_detected /\ ~ret.args.performance_degraded /\ TimeFired(ret)
    /\ ret.value.should_retrain /\ Len(ret.value.reasons) = 1
    /\ ~prev.value.should_retrain /\ prev.value.reasons = << >>

SameInputs(r1, r2) ==
    /\ IsMonitorDecision(r1) /\ IsMonitorDecision(r2)
    /\ r1.args = r2.args

\* C2 as stated: two calls with the same inputs return decisions that are
\* identical in every field.
C2_IdenticalInEveryField ==
    SameInputs(prev, ret) => ret.value = prev.value

\* C2 amended: two calls with the same inputs return decisions with the same
\* should_retrain, the same reasons in the same order and the same priority;
\* the timestamp is the time of each call.
C2_IdenticalButTimestamp ==
    SameInputs(prev, ret) =>
        /\ ret.value.should_retrain = prev.value.should_retrain
        /\ ret.value.reasons = prev.value.reasons
        /\ ret.value.priority = prev.value.priority

\* the same inputs evaluated at two different times, all three triggers firing
C2_Witness ==
    /\ SameInputs(prev, ret)
    /\ Len(ret.value.reasons) = 3
    /\ ret.value.timestamp # prev.value.timestamp

ReasonRank(reason) ==
    IF reason = DriftReason THEN 1
    ELSE IF reason = PerformanceReason THEN 2
    ELSE 3

\* C3: the reasons are in the order drift, performance, time, and each fired
\* trigger contributes exactly one reason (a trigger that did not fire, none).
C3_ReasonOrder ==
    IsMonitorDecision(ret) =>
        LET reasons == ret.value.reasons
        IN /\ \A i, j \in 1 .. Len(reasons) :
                  i < j => ReasonRank(reasons[i]) < ReasonRank(reasons[j])
           /\ Count(reasons, DriftReason) = IF ret.args.drift_detected THEN 1 ELSE 0
           /\ Count(reasons, PerformanceReason) =
                  IF ret.args.performance_degraded THEN 1 ELSE 0
           /\ Count(reasons, TimeReason(MaxDaysOf(ret))) = IF TimeFired(ret) THEN 1 ELSE 0
           /\ Len(reasons) = Count(reasons, DriftReason) + Count(reasons, PerformanceReason)
                                 + Count(reasons, TimeReason(MaxDaysOf(ret)))

\* all three triggers fired together
C3_Witness ==
    /\ IsMonitorDecision(ret)
    /\ ret.args.drift_detected /\ ret.args.performance_degraded /\ TimeFired(ret)
    /\ Len(ret.value.reasons) = 3

IsForecasterAnswer(r) == r.op = "ProductionForecaster.should_retrain"

\* C4 as stated: an evaluation for a model that was never trained (no last
\* retrain date, so no days since training) returns a decision with
\* should_retrain = true and the time reason among its reasons, whatever the
\* other triggers and the current date.
C4_NeverTrainedTimeReason ==
    /\ (IsForecasterAnswer(ret) /\ IsNone(ret.args.last_retrain_date)) =>
           /\ ret.value = TRUE
           /\ IsMonitorDecision(ret)
           /\ \E i \in 1 .. Len(ret.value.reasons) : ReasonRank(ret.value.reasons[i]) = 3
    /\ (ret.op = "ModelMonitor.should_retrain" /\ IsNone(ret.args.days_since_training)) =>
           /\ IsMonitorDecision(ret)
           /\ ret.value.should_retrain
           /\ \E i \in 1 .. Len(ret.value.reasons) : ReasonRank(ret.value.reasons[i]) = 3

\* C4 amended: should_retrain of a forecaster that was never trained (its
\* last_retrain_date is None) returns True, whatever the current date.
C4_NeverTrainedReturnsTrue ==
    (IsForecasterAnswer(ret) /\ IsNone(ret.args.last_retrain_date)) =>
        ret.ok /\ ret.value = TRUE

\* a never-trained forecaster asked on two different dates
C4_Witness ==
    /\ IsForecasterAnswer(ret) /\ IsForecasterAnswer(prev)
    /\ IsNone(ret.args.last_retrain_date) /\ IsNone(prev.args.last_retrain_date)
    /\ ret.args.current_date # prev.args.current_date
    /\ ret.value = TRUE /\ prev.value = TRUE

\* C5: the time trigger fires iff days_since_training >= max_days, 30 by default:
\* its reason is in the decision exactly then, and with no other trigger
\* should_retrain is true exactly then.
C5_TimeTriggerInclusive ==
    IsMonitorDecision(ret) =>
        /\ HasReason(ret, TimeReason(MaxDaysOf(ret))) <=> TimeFired(ret)
        /\ (~ret.args.drift_detected /\ ~ret.args.performance_degraded) =>
               (ret.value.should_retrain <=> TimeFired(ret))

\* with the default interval: no trigger at 29 days, then the trigger at 30 days
C5_Witness ==
    /\ IsMonitorDecision(ret) /\ IsMonitorDecision(prev)
    /\ IsNone(ret.args.max_days) /\ IsNone(prev.args.max_days)
    /\ ~ret.args.drift_detected /\ ~ret.args.performance_degraded
    /\ ~prev.args.drift_detected /\ ~prev.args.performance_degraded
    /\ prev.args.days_since_training = Some(29) /\ ~prev.value.should_retrain
    /\ ret.args.days_since_training = Some(30) /\ ret.value.should_retrain
    /\ ret.value.reasons = <<"Scheduled retraining (>30 days)">>

\* C7: the priority is 'high' iff the performance trigger fired and 'medium'
\* otherwise, whatever the drift and time triggers.
C7_PriorityFromPerformance ==
    IsMonitorDecision(ret) =>
        ret.value.priority = IF ret.args.performance_degraded THEN "high" ELSE "medium"

\* drift and time fired without performance: medium; performance alone: high
C7_Witness ==
    /\ IsMonitorDecision(ret) /\ IsMonitorDecision(prev)
    /\ ret.args.drift_detected /\ TimeFired(ret) /\ ~ret.args.performance_degraded
    /\ ret.value.priority = "medium"
    /\ ~prev.args.drift_detected /\ ~TimeFired(prev) /\ prev.args.performance_degraded
    /\ prev.value.priority = "high"

----------------------------------------------------------------------------
\* Drift reports (ModelMonitor.check_all_features_drift)

IsDriftCheck(r) == r.op = "ModelMonitor.check_all_features_drift"
IsDriftReport(r) == IsDriftCheck(r) /\ r.ok

ListedFeatures(r) ==
    {r.args.numerical_features[i] : i \in 1 .. Len(r.args.numerical_features)}

DriftedSet(r) ==
    {r.value.drifted_features[i] : i \in 1 .. Len(r.value.drifted_features)}

\* the features of the report whose score is a number strictly above the threshold
AboveThreshold(r) ==
    {f \in DOMAIN r.value.features :
        /\ ~r.value.features[f].nan
        /\ r.value.features[f].num * r.args.threshold.den
               > r.args.threshold.num * r.value.features[f].den}

\* C8: in every report drifted_features is exactly the set of features whose
\* score is strictly greater than the threshold, and drift_detected is true iff
\* that set is non-empty.
C8_DriftedIffAboveThreshold ==
    IsDriftReport(ret) =>
        /\ DriftedSet(ret) = AboveThreshold(ret)
        /\ ret.value.drift_detected <=> (AboveThreshold(ret) # {})

\* one feature scored exactly the threshold and is not drifted, another scored
\* above it and is
C8_Witness ==
    /\ IsDriftReport(ret)
    /\ \E f, g \in DOMAIN ret.value.features :
          /\ ret.value.features[f] = [nan |-> FALSE, num |-> ret.args.threshold.num,
                                      den |-> ret.args.threshold.den]
          /\ f \notin DriftedSet(ret)
          /\ g \in DriftedSet(ret)
    /\ ret.value.drift_detected

AbsentFromReference(f) ==
    IsNone(reference_data) \/ f \notin columns(Val(reference_data))
AbsentFromBatch(r, f) == f \notin columns(r.args.current_data)

\* C9: when a listed feature is absent from the reference data or from a
\* (non-empty) current batch, the call returns a report that holds every listed
\* feature, the absent ones with score 0.
C9_MissingFeatureScoredZero ==
    (/\ IsDriftCheck(ret)
     /\ NumRows(ret.args.current_data) > 0
     /\ \E f \in ListedFeatures(ret) : AbsentFromReference(f) \/ AbsentFromBatch(ret, f)) =>
        /\ ret.ok
        /\ \A f \in ListedFeatures(ret) :
              /\ f \in DOMAIN ret.value.features
              /\ (AbsentFromReference(f) \/ AbsentFromBatch(ret, f)) =>
                     ret.value.features[f] = Zero

\* C10: a check of an empty current batch fails: it returns no report and
\* nothing is appended to the drift log. (Stated for the batches with no rows
\* in which a listed feature is a column, the ones a score is asked of.)
C10_EmptyBatchRejected ==
    (/\ IsDriftCheck(ret)
     /\ NumRows(ret.args.current_data) = 0
     /\ ListedFeatures(ret) \cap columns(ret.args.current_data) # {}) =>
        /\ ~ret.ok
        /\ drift_log = << >>

----------------------------------------------------------------------------
\* The forecaster's last retrain date

\* C6: no call of should_retrain, whatever it returns, and no other operation
\* of the forecaster changes last_retrain_date.
C6_LastRetrainDateUnchanged ==
    [][last_retrain_date' = last_retrain_date]_vars

\* should_retrain answered True twice in a row and the date is still unset
C6_Witness ==
    /\ ret.op = "ProductionForecaster.should_retrain" /\ ret.value = TRUE
    /\ prev.op = "ProductionForecaster.should_retrain" /\ prev.value = TRUE
    /\ ret.args.current_date > prev.args.current_date
    /\ "ARIMA" \in DOMAIN models
    /\ IsNone(last_retrain_date)

----------------------------------------------------------------------------
\* Claims about ModelMonitor.check_performance_degradation

IsDegradationReport(r) == r.op = "ModelMonitor.check_performance_degradation" /\ r.ok

\* the metrics the report lists as degraded
ListedAsDegraded(r) ==
    {r.value.degraded_metrics[i].metric : i \in 1 .. Len(r.value.degraded_metrics)}

InBoth(r) == DOMAIN r.args.baseline_metrics \cap DOMAIN r.args.current_metrics

\* C11: a metric present in both the current and the baseline metrics is listed
\* as degraded exactly when baseline - current > threshold (strictly), and the
\* report's degraded flag is true exactly when at least one metric is listed.
C11_DegradedIffDropExceedsThreshold ==
    IsDegradationReport(ret) =>
        /\ \A m \in InBoth(ret) :
              m \in ListedAsDegraded(ret)
                  <=> ret.args.baseline_metrics[m] - ret.args.current_metrics[m]
                          > ret.args.threshold
        /\ ret.value.degraded <=> ListedAsDegraded(ret) # {}

\* baseline 0.90, current 0.80, threshold 0.05: reported degraded; and a drop of
\* exactly the threshold is seen as well
C11_Witness ==
    /\ IsDegradationReport(ret)
    /\ "accuracy" \in InBoth(ret)
    /\ ret.args.baseline_metrics["accuracy"] = 90
    /\ ret.args.current_metrics["accuracy"] = 80
    /\ ret.args.threshold = 5
    /\ ret.value.degraded
    /\ "accuracy" \in ListedAsDegraded(ret)

\* C12: a metric of the baseline that is absent from the current metrics is
\* flagged in the report (MISSING_METRIC) and the report is degraded.
C12_MissingMetricFlagged ==
    IsDegradationReport(ret) =>
        \A m \in DOMAIN ret.args.baseline_metrics \ DOMAIN ret.args.current_metrics :
            /\ m \in ListedAsDegraded(ret)
            /\ ret.value.degraded


----------------------------------------------------------------------------
\* Claims about ProductionForecaster.t_policy_recommendation

IsRecommendCall(r) == r.op = "ProductionForecaster.t_policy_recommendation"
IsRecommendation(r) == IsRecommendCall(r) /\ r.ok

\* the long aggregate the recommendation reports, the price it was asked for,
\* and 100 * (long aggregate - price) over the aggregate's denominator
LongAggregate(r) == r.value.forecast_90d
PriceOf(r) == r.args.current_spot_price
HundredTimesRise(r) == 100 * (LongAggregate(r).num - PriceOf(r) * LongAggregate(r).den)

\* (long_aggregate - current_price) / current_price * 100 is above k / below k
TrendAbove(r, k) ==
    IF PriceOf(r) > 0
    THEN HundredTimesRise(r) > k * LongAggregate(r).den * PriceOf(r)
    ELSE HundredTimesRise(r) < k * LongAggregate(r).den * PriceOf(r)
TrendBelow(r, k) ==
    IF PriceOf(r) > 0
    THEN HundredTimesRise(r) < k * LongAggregate(r).den * PriceOf(r)
    ELSE HundredTimesRise(r) > k * LongAggregate(r).den * PriceOf(r)

\* C13: trend_pct is (long_aggregate - current_price) / current_price * 100; the
\* recommendation is LOCK exactly when trend_pct > 2.0, WAIT exactly when
\* trend_pct < -2.0 and MONITOR otherwise, so a trend of exactly 2.0 or -2.0 is
\* MONITOR.
C13_DecisionByStrictThresholds ==
    (IsRecommendation(ret) /\ PriceOf(ret) # 0 /\ ~LongAggregate(ret).nan) =>
        /\ ~ret.value.trend_pct.nan
        /\ ret.value.trend_pct.den > 0
        /\ ret.value.trend_pct.num * LongAggregate(ret).den * PriceOf(ret)
               = HundredTimesRise(ret) * ret.value.trend_pct.den
        /\ ret.value.recommendation = LOCK <=> TrendAbove(ret, 2)
        /\ ret.value.recommendation = WAIT <=> TrendBelow(ret, -2)
        /\ ret.value.recommendation = MONITOR <=> ~TrendAbove(ret, 2) /\ ~TrendBelow(ret, -2)

\* price 100 and long aggregate 102: the trend is exactly 2.0 and the answer is MONITOR
C13_Witness ==
    /\ IsRecommendation(ret)
    /\ PriceOf(ret) = 100
    /\ LongAggregate(ret) = FloatOf(102)
    /\ ret.value.trend_pct = FloatOf(2)
    /\ ret.value.recommendation = MONITOR

HorizonOf(r) == Len(r.args.forecast_df.predicted_price)

\* the calls the claims below speak of: a positive price and at least 3 steps
Accepted(r) == PriceOf(r) > 0 /\ HorizonOf(r) >= 3

\* the savings of a recommendation are those of hedging `volume` units
SavingsForVolume(r, volume) ==
    LET savings == r.value.expected_savings
        rise == LongAggregate(r).num - PriceOf(r) * LongAggregate(r).den
    IN /\ ~savings.nan
       /\ savings.den > 0
       /\ r.value.recommendation = LOCK =>
              savings.num * LongAggregate(r).den = rise * volume * savings.den
       /\ r.value.recommendation = WAIT =>
              savings.num * LongAggregate(r).den = Abs(rise) * volume * savings.den
       /\ r.value.recommendation = MONITOR => savings.num = 0

\* C14 (as stated): the expected savings scale with the caller's volume: LOCK
\* gives (long_aggregate - current_price) * volume, WAIT gives
\* (current_price - long_aggregate) * volume, MONITOR gives 0.
C14_SavingsScaleWithCallerVolume ==
    (IsRecommendation(ret) /\ Accepted(ret)) => SavingsForVolume(ret, Val(incoming).volume)

\* C14 (amended): the expected savings are those of a fixed volume of 1,000,000
\* units, whatever the caller hedges: LOCK gives (long_aggregate - current_price)
\* * 1,000,000, WAIT gives |current_price - long_aggregate| * 1,000,000, MONITOR 0.
C14_SavingsForAssumedVolume ==
    (IsRecommendation(ret) /\ Accepted(ret)) => SavingsForVolume(ret, AssumedVolume)

\* price 100 and long aggregate 103: LOCK with savings 3,000,000
C14_Witness ==
    /\ IsRecommendation(ret)
    /\ PriceOf(ret) = 100
    /\ LongAggregate(ret) = FloatOf(103)
    /\ ret.value.recommendation = LOCK
    /\ ret.value.expected_savings = FloatOf(3000000)

\* C15: the expected savings are never negative, and 0 when the recommendation is
\* MONITOR, for every forecast and current price the operation accepts.
C15_SavingsNeverNegative ==
    IsRecommendation(ret) =>
        /\ ~LessThan(ret.value.expected_savings, 0)
        /\ ret.value.recommendation = MONITOR => ret.value.expected_savings = FloatOf(0)

\* C16: a current price <= 0 makes the call fail (INVALID_PRICE); no
\* recommendation is returned.
C16_NonPositivePriceRejected ==
    (IsRecommendCall(ret) /\ PriceOf(ret) <= 0) => ~ret.ok

\* the rows (counted from 1) that iloc[start:stop] takes of n rows
RowsOf(start, stop, n) == (Min(start, n) + 1) .. Min(stop, n)

\* C17: a forecast of n >= 3 steps is cut into three contiguous windows that
\* cover every step once, the first two of floor(n/3) steps and the final one of
\* the rest, and the long aggregate is the mean of the final window.
C17_WindowsAreThirds ==
    (IsRecommendation(ret) /\ Accepted(ret)) =>
        LET n == HorizonOf(ret)
            third == n \div 3
        IN /\ RowsOf(0, Day30, n) = 1 .. third
           /\ RowsOf(Day30, Day60, n) = (third + 1) .. (2 * third)
           /\ RowsOf(Day60, Day90, n) = (2 * third + 1) .. n
           /\ LongAggregate(ret)
                  = mean(SubSeq(ret.args.forecast_df.predicted_price, 2 * third + 1, n))

\* C18: a forecast of fewer than 3 steps makes the call fail
\* (INSUFFICIENT_HORIZON).
C18_ShortForecastRejected ==
    (IsRecommendCall(ret) /\ PriceOf(ret) > 0 /\ HorizonOf(ret) < 3) => ~ret.ok


----------------------------------------------------------------------------
\* Claims about ProductionForecaster.generate_forecast

IsForecastCall(r) == r.op = "ProductionForecaster.generate_forecast"

LastKnownDate(r) == Max({r.args.data.date[i] : i \in DOMAIN r.args.data.date})

\* C19: a forecast with horizon n > 0 that succeeds has exactly n entries, and the
\* date of the i-th entry (from 1) is the last known date plus i days.
C19_ConsecutiveDatesAfterLastKnown ==
    (IsForecastCall(ret) /\ ret.ok /\ ret.args.steps > 0) =>
        /\ Len(ret.value.date) = ret.args.steps
        /\ Len(ret.value.predicted_price) = ret.args.steps
        /\ Len(ret.value.model) = ret.args.steps
        /\ \A i \in 1 .. ret.args.steps : ret.value.date[i] = LastKnownDate(ret) + i

\* a forecast of MaxSteps steps by a trained ARIMA model, from a history whose
\* latest date is not in its last row
C19_Witness ==
    /\ IsForecastCall(ret)
    /\ ret.ok
    /\ ret.args.model_name = "ARIMA"
    /\ ret.args.steps = MaxSteps
    /\ ret.args.data.date[Len(ret.args.data.date)] # LastKnownDate(ret)
    /\ ret.value.date[MaxSteps] = LastKnownDate(ret) + MaxSteps

UnderlyingModel(name) == IF name = "XGBoost" THEN models[name].model ELSE models[name]

\* C21: a forecast never substitutes a placeholder for a model prediction: every
\* predicted value of a returned forecast is the registered model's own forecast
\* for that step, and without a model that can forecast the call fails.
C21_PredictionsComeFromModel ==
    (IsForecastCall(ret) /\ ret.ok) =>
        /\ ret.args.model_name \in DOMAIN models
        /\ ret.value.predicted_price
               = forecast(UnderlyingModel(ret.args.model_name), ret.args.steps)


----------------------------------------------------------------------------
\* Claims about the model registry of a ProductionForecaster

IsTraining(r) == r.op = "ProductionForecaster.train"
FitFailed(r) == IsTraining(r) /\ (~r.ok \/ IsNone(r.value))
FitSucceeded(r) == IsTraining(r) /\ r.ok /\ ~IsNone(r.value)

\* C22: a failed fit leaves the registry as it was (the model registered before
\* under that name, if any, is still the registered one), and an entry of the
\* registry changes only by a fit that succeeds, which registers its fitted
\* model under its own name and touches no other entry.
C22_FailedFitKeepsRegistry ==
    [][/\ FitFailed(ret') => models' = models
       /\ models' # models =>
              /\ FitSucceeded(ret')
              /\ models' = Register(models, ret'.args.model, Val(ret'.value))]_vars

\* an ARIMA model fitted on series 1 is still the registered one after the fit
\* on series 2 failed
C22_Witness ==
    /\ FitFailed(ret)
    /\ ret.args = [model |-> "ARIMA", series |-> 2]
    /\ FitSucceeded(prev)
    /\ "ARIMA" \in DOMAIN models
    /\ models["ARIMA"] = Fitted("ARIMA", 1)


----------------------------------------------------------------------------
\* Claims about the logs of a ModelMonitor

\* the logs a ModelMonitor keeps
MonitorLogs == {performance_log, drift_log}

IsLastEntry(log, entry) == Len(log) > 0 /\ log[Len(log)] = entry

\* C23: every decision produced by a policy evaluation is appended to a decision
\* log: once should_retrain has returned a decision, that decision is the latest
\* entry of a log of the monitor.
C23_DecisionIsLogged ==
    IsMonitorDecision(ret) => \E log \in MonitorLogs : IsLastEntry(log, ret.value)


----------------------------------------------------------------------------
\* Claims about ModelMonitor.calculate_psi

IsPSI(r) == r.op = "ModelMonitor.calculate_psi"

\* a summed term (a - e) * ln(a / e) is infinite when exactly one of a, e is 0,
\* and it is 0 exactly when a = e
TermIsInfinite(term) == ~term.nan /\ ((term.actual.num = 0) # (term.expected.num = 0))
TermIsZero(term) == ~term.nan /\ term.actual = term.expected /\ term.actual.num # 0

PSIIsFinite(psi) == \A i \in 1 .. Len(psi) : ~psi[i].nan /\ ~TermIsInfinite(psi[i])
PSIIsZero(psi) == \A i \in 1 .. Len(psi) : TermIsZero(psi[i])

\* C24: the PSI is always finite: for every reference sample and every non-empty
\* current sample, also when an interval has a zero share on either side,
\* calculate_psi returns a finite number.
C24_PSIIsFinite ==
    (IsPSI(ret) /\ Len(ret.args.actual) > 0) => ret.ok /\ PSIIsFinite(ret.value)

\* C25: PSI(ref, ref) = 0: with the current sample equal to the reference sample
\* calculate_psi returns exactly 0.
C25_PSIOfReferenceIsZero ==
    (IsPSI(ret) /\ ret.args.actual = ret.args.expected) => ret.ok /\ PSIIsZero(ret.value)

\* the PSI of the sample 1, 2 against itself: two intervals hold half of the
\* sample each, the intervals between them are empty on both sides
C25_Witness ==
    /\ IsPSI(ret)
    /\ ret.ok
    /\ ret.args.expected = <<1, 2>>
    /\ ret.args.actual = <<1, 2>>
    /\ Len(breakpoints(ret.args.expected, DefaultBins)) = DefaultBins + 1
    /\ Len(ret.value) = 2
    /\ PSIIsZero(ret.value)


----------------------------------------------------------------------------
\* Claims about the KS drift score

\* the sample of a feature that is compared: its values without the missing ones
SampleOf(df, f) == dropna(df.data[f])

\* the features of a report that were scored by comparing two non-empty samples
ComparedFeatures(r) ==
    {f \in DOMAIN r.value.features :
        /\ ~IsNone(reference_data)
        /\ f \in columns(Val(reference_data))
        /\ f \in columns(r.args.current_data)
        /\ SampleOf(Val(reference_data), f) # << >>
        /\ SampleOf(r.args.current_data, f) # << >>}

\* two samples have the same empirical distribution function
SameDistribution(a, b) ==
    \A v \in Values : CountLE(a, v) * Len(b) = CountLE(b, v) * Len(a)

\* C26: the KS drift score is symmetric and bounded: for all (non-empty) samples
\* A and B the score of A against B equals the score of B against A, it lies in
\* [0, 1], and it is 0 when A and B have the same empirical distribution.
C26_KSSymmetricAndBounded ==
    IsDriftReport(ret) =>
        \A f \in ComparedFeatures(ret) :
            LET score == ret.value.features[f]
                swapped == calculate_drift(Some(ret.args.current_data), Val(reference_data),
                                           f, ks_empty_raises)
            IN /\ swapped.ok
               /\ swapped.score = score
               /\ ~score.nan
               /\ 0 <= score.num
               /\ score.num <= score.den
               /\ SameDistribution(SampleOf(Val(reference_data), f),
                                   SampleOf(ret.args.current_data, f)) => score = Zero

\* samples of different sizes that differ (score 1/2), and in the same report
\* samples of different sizes with the same distribution (score 0)
C26_Witness ==
    /\ IsDriftReport(ret)
    /\ \E f, g \in ComparedFeatures(ret) :
          /\ ret.value.features[f] = Fraction(1, 2)
          /\ Len(SampleOf(Val(reference_data), f)) # Len(SampleOf(ret.args.current_data, f))
          /\ ret.value.features[g] = Zero
          /\ Len(SampleOf(Val(reference_data), g)) # Len(SampleOf(ret.args.current_data, g))


----------------------------------------------------------------------------
\* Claims about the saved model versions

\* a version directory that a save completed
IsSavedVersion(files) == "metadata.json" \in DOMAIN files

\* C27: saved versions are retained read-only: a version that was saved holds
\* the artifacts and the metadata it was saved with after every later step (a
\* later save never overwrites an earlier version).
C27_SavedVersionsRetained ==
    [][\A v \in DOMAIN model_dir :
           IsSavedVersion(model_dir[v]) =>
               v \in DOMAIN model_dir' /\ model_dir'[v] = model_dir[v]]_vars


----------------------------------------------------------------------------
\* Claims about the data cleaner

IsRemoveDuplicates(r) == r.op = "DataCleaner.remove_duplicates" /\ r.ok

\* two rows are equal: in every column, or in the subset columns when given
EqualRows(a, b, subset) ==
    \A c \in (IF IsNone(subset) THEN RecordColumns ELSE Val(subset)) : a[c] = b[c]

\* the positions of df whose row equals no earlier row
FirstOccurrences(df, subset) ==
    {i \in 1 .. Len(df) : \A j \in 1 .. i - 1 : ~EqualRows(df[j], df[i], subset)}

\* the k-th smallest position of a set of positions
KthOf(positions, k) ==
    CHOOSE i \in positions : Cardinality({j \in positions : j <= i}) = k

\* C28: remove_duplicates keeps the first occurrence of every distinct row (over
\* the subset columns when given) and drops the rest: the result has no two
\* equal rows, cleaning_report['duplicates_removed'] is the input length minus
\* the output length, and the kept rows are in their original relative order.
C28_KeepsFirstOccurrences ==
    IsRemoveDuplicates(ret) =>
        LET df == ret.args.df
            subset == ret.args.subset
            out == ret.value
            firsts == FirstOccurrences(df, subset)
        IN /\ Len(out) = Cardinality(firsts)
           /\ \A k \in 1 .. Len(out) : out[k] = df[KthOf(firsts, k)]
           /\ \A i, j \in 1 .. Len(out) : i # j => ~EqualRows(out[i], out[j], subset)
           /\ "duplicates_removed" \in DOMAIN cleaning_report
           /\ cleaning_report["duplicates_removed"] = Len(df) - Len(out)

\* a frame of three rows was cleaned over the id column: the second row was kept,
\* the third, of the same id and another value, was dropped
C28_Witness ==
    /\ IsRemoveDuplicates(ret)
    /\ ret.args.subset = Some({"id"})
    /\ Len(ret.args.df) = 3
    /\ ret.args.df[1].id # ret.args.df[2].id
    /\ ret.args.df[2].id = ret.args.df[3].id
    /\ ret.args.df[2].value # ret.args.df[3].value
    /\ ret.value = <<ret.args.df[1], ret.args.df[2]>>
    /\ cleaning_report["duplicates_removed"] = 1


----------------------------------------------------------------------------
\* Claims about the weekly retraining

IsShouldRetrainCall(r) == r.op = "ProductionForecaster.should_retrain" /\ r.ok

\* C29: the forecaster retrains weekly, not on every call: when a training has
\* just succeeded on date d (the clock of the forecaster's runs stands at `now`),
\* should_retrain(d') returns False for every d' fewer than retrain_frequency
\* days after d, and True from d + retrain_frequency on.
C29_RetrainsWeeklyAfterTraining ==
    (FitSucceeded(prev) /\ IsShouldRetrainCall(ret) /\ ret.args.current_date >= now) =>
        ret.value = (ret.args.current_date - now >= retrain_frequency)


----------------------------------------------------------------------------
\* Claims about the bank accounts

IsWithdraw(r) == r.op = "BankAccount.withdraw"
IsTransfer(r) == r.op = "BankAccount.transfer"

\* the sum of the balances of the accounts in `names`
RECURSIVE SumOfBalances(_, _)
SumOfBalances(accounts, names) ==
    IF names = {}
    THEN 0
    ELSE LET name == CHOOSE n \in names : TRUE
         IN accounts[name] + SumOfBalances(accounts, names \ {name})

\* C30: a withdraw or a transfer whose amount exceeds the balance of the account
\* it is made on returns to the caller without raising and leaves the balance
\* of every account as it was; a transfer of an amount the balance covers, to
\* another account, lowers the source balance by the amount and raises the
\* target balance by the amount; no transfer changes the sum of the balances.
C30_OverdrawRejectedTransfersConserve ==
    [][LET call == ret'.args
       IN /\ ((IsWithdraw(ret') \/ IsTransfer(ret')) /\ call.amount > balance[call.self]) =>
                 ret'.ok /\ balance' = balance
          /\ (IsTransfer(ret') /\ call.amount <= balance[call.self]
                  /\ Val(call.account) # call.self) =>
                 /\ balance'[call.self] = balance[call.self] - call.amount
                 /\ balance'[Val(call.account)] = balance[Val(call.account)] + call.amount
                 /\ \A other \in Holders \ {call.self, Val(call.account)} :
                        balance'[other] = balance[other]
          /\ IsTransfer(ret') =>
                 SumOfBalances(balance', Holders) = SumOfBalances(balance, Holders)]_vars

\* a transfer moved 100 from Dave to John, and the next transfer of 100 from
\* Dave, whose balance was 50 by then, was turned down: Dave still has 50
C30_Witness ==
    /\ IsTransfer(prev) /\ prev.args.self = "Dave" /\ prev.args.account = Some("John")
    /\ prev.args.amount = 100 /\ prev.args.balance = 150
    /\ IsTransfer(ret) /\ ret.ok /\ ret.args.self = "Dave"
    /\ ret.args.amount = 100 /\ ret.args.balance = 50
    /\ balance["Dave"] = 50


====
